---- MODULE Spec2Model ----
(***************************************************************************)
(* A model of simpledb (src/src/main.rs): a single-table record store with *)
(* a page cache (Pager) over one file, one B-tree leaf (page 0) and a      *)
(* line-oriented command loop.                                             *)
(*                                                                         *)
(* Representation.  A byte is a number in 0..255, a buffer (a page, a      *)
(* file, a token, an input line) is a sequence of bytes.  A u32 is a pair  *)
(* <<lo, hi>> of 16-bit limbs (value lo + 65536*hi) and the magnitude of   *)
(* an i64 is four such limbs, because TLC integers are 32 bits             *)
(* wide.  Offsets are 0-based as in the source; sequences are 1-based, so  *)
(* the byte at offset o of buffer b is b[o+1].  Text is UTF-8.             *)
(*                                                                         *)
(* Undefined behaviour.  The u32 accessors of the source                   *)
(* (leaf_node_num_cells, leaf_node_key, Row::deserialize) cast a byte      *)
(* pointer to *u32 and dereference it.  The cell count lies at offset 6 of *)
(* the page and the key and the id of cell i at offsets 10 + 297*i and     *)
(* 14 + 297*i, which are multiples of four only for i = 2, 6, 10, so most  *)
(* of these dereferences are misaligned.  What then happens depends on the *)
(* build: with debug assertions (cargo's default profile) the process is   *)
(* aborted at the dereference, without unwinding and so without the Drop   *)
(* of the Table; without them the four bytes are read or written, least    *)
(* significant first.  The build is a variable drawn in Init, and every    *)
(* function that dereferences returns "abort" as one of its results.       *)
(***************************************************************************)
EXTENDS Integers, Sequences, FiniteSets, TLC

\* ------------------------------------------------------------------------
\* Layout constants (main.rs 13-48)
\* ------------------------------------------------------------------------
COLUMN_USERNAME_SIZE == 32
COLUMN_EMAIL_SIZE == 255

\* an id field of eight bytes (a mutant of ID_SIZE)
ID_SIZE_wide == 4 + 4

ID_SIZE == 4
USERNAME_SIZE == COLUMN_USERNAME_SIZE + 1
EMAIL_SIZE == COLUMN_EMAIL_SIZE + 1
ID_OFFSET == 0
USERNAME_OFFSET == ID_OFFSET + ID_SIZE
EMAIL_OFFSET == USERNAME_OFFSET + USERNAME_SIZE
ROW_SIZE == ID_SIZE + USERNAME_SIZE + EMAIL_SIZE

PAGE_SIZE == 4096
TABLE_MAX_PAGES == 100

NODE_TYPE_SIZE == 1
NODE_TYPE_OFFSET == 0
IS_ROOT_SIZE == 1
IS_ROOT_OFFSET == NODE_TYPE_OFFSET + NODE_TYPE_SIZE
PARENT_POINTER_SIZE == 4
PARENT_POINTER_OFFSET == IS_ROOT_OFFSET + IS_ROOT_SIZE
COMMON_NODE_HEADER_SIZE == NODE_TYPE_SIZE + IS_ROOT_SIZE + PARENT_POINTER_SIZE

LEAF_NODE_NUM_CELLS_SIZE == 4
LEAF_NODE_NUM_CELLS_OFFSET == COMMON_NODE_HEADER_SIZE
LEAF_NODE_HEADER_SIZE == COMMON_NODE_HEADER_SIZE + LEAF_NODE_NUM_CELLS_SIZE

LEAF_NODE_KEY_SIZE == 4
LEAF_NODE_KEY_OFFSET == 0
LEAF_NODE_VALUE_SIZE == ROW_SIZE
LEAF_NODE_VALUE_OFFSET == LEAF_NODE_KEY_OFFSET + LEAF_NODE_KEY_SIZE
LEAF_NODE_CELL_SIZE == LEAF_NODE_KEY_SIZE + LEAF_NODE_VALUE_SIZE
LEAF_NODE_SPACE_FOR_CELLS == PAGE_SIZE - LEAF_NODE_HEADER_SIZE
LEAF_NODE_MAX_CELLS == LEAF_NODE_SPACE_FOR_CELLS \div LEAF_NODE_CELL_SIZE
\* ------------------------------------------------------------------------
\* Bytes, slices and fixed-width integers
\* ------------------------------------------------------------------------
Limb == 256 * 256

\* n zero bytes (vec![0; n], [0; N])
Zeros(n) == [i \in 1..n |-> 0]

ZeroPage == Zeros(PAGE_SIZE)

\* buf[from..to] with 0-based, end-exclusive offsets, for to <= len(buf)
Slice(buf, from, to) == SubSeq(buf, from + 1, to)

\* dest[from..from+len(src)].copy_from_slice(src), for from+len(src) <= len(dest)
CopyInto(dest, from, src) ==
    SubSeq(dest, 1, from) \o src \o SubSeq(dest, from + Len(src) + 1, Len(dest))

\* u32::to_le_bytes
to_le_bytes(v) == << v[1] % 256, v[1] \div 256, v[2] % 256, v[2] \div 256 >>

\* the u32 that four bytes hold on a little-endian target
from_le_bytes(b) == << b[1] + 256 * b[2], b[3] + 256 * b[4] >>

\* `x as usize` of a u32
as_usize(v) == v[1] + Limb * v[2]

\* `n as u32` of a small usize
as_u32(n) == << n % Limb, n \div Limb >>

\* a < b and a <= b on u32
U32Less(a, b) == a[2] < b[2] \/ (a[2] = b[2] /\ a[1] < b[1])
U32Leq(a, b) == a = b \/ U32Less(a, b)

\* `let v = ...;` followed by the statements K that use it: v is evaluated
\* once, wherever K names it
Let(v, K(_)) == K(v)

\* ------------------------------------------------------------------------
\* Builds, and the dereference of a byte pointer cast to *u32
\* ------------------------------------------------------------------------
\* cargo's profiles: "debug" has debug assertions, "release" has none
Builds == { "debug", "release" }

\* align_of::<u32>()
U32_ALIGN == 4

\* The dereference of a *u32 at `offset` of a page aborts the process: the
\* build checks alignment and the address is no multiple of U32_ALIGN.  A
\* page is a Vec<u8> of PAGE_SIZE bytes, which the allocator places at a
\* multiple of U32_ALIGN, so the offset decides.
Traps(bld, offset) == bld = "debug" /\ offset % U32_ALIGN # 0

\* *(p as *const u32) for p = the four bytes `bytes` at `offset` of a page.
\* res = "ok" | "abort"
read_u32(bytes, offset, bld) ==
    IF Traps(bld, offset)
    THEN [ res |-> "abort", v |-> << 0, 0 >> ]
    ELSE [ res |-> "ok", v |-> from_le_bytes(bytes) ]

\* ------------------------------------------------------------------------
\* Leaf node layout (main.rs 50-74)
\* ------------------------------------------------------------------------
\* the read of *leaf_node_num_cells(node).  res = "ok" | "abort" | "panic"
\* (the slice node[6..10] is out of range)
leaf_node_num_cells(node, bld) ==
    IF Len(node) < LEAF_NODE_HEADER_SIZE
    THEN [ res |-> "panic", v |-> << 0, 0 >> ]
    ELSE read_u32(Slice(node, LEAF_NODE_NUM_CELLS_OFFSET, LEAF_NODE_HEADER_SIZE),
                  LEAF_NODE_NUM_CELLS_OFFSET, bld)

\* the store *leaf_node_num_cells(node) = v
set_leaf_node_num_cells(node, v, bld) ==
    IF Len(node) < LEAF_NODE_HEADER_SIZE THEN [ res |-> "panic", node |-> node ]
    ELSE IF Traps(bld, LEAF_NODE_NUM_CELLS_OFFSET)
    THEN [ res |-> "abort", node |-> node ]
    ELSE [ res |-> "ok",
           node |-> CopyInto(node, LEAF_NODE_NUM_CELLS_OFFSET, to_le_bytes(v)) ]

leaf_node_offset(cell_num) == LEAF_NODE_HEADER_SIZE + cell_num * LEAF_NODE_CELL_SIZE

\* the slice node[offset(c)..offset(c+1)] exists (otherwise the index panics)
CellInPage(node, cell_num) == leaf_node_offset(cell_num + 1) <= Len(node)

leaf_node_cell(node, cell_num) ==
    Slice(node, leaf_node_offset(cell_num), leaf_node_offset(cell_num + 1))

\* the read of *leaf_node_key(node, cell_num)
leaf_node_key(node, cell_num, bld) ==
    IF ~CellInPage(node, cell_num)
    THEN [ res |-> "panic", v |-> << 0, 0 >> ]
    ELSE read_u32(Slice(leaf_node_cell(node, cell_num), 0, LEAF_NODE_KEY_SIZE),
                  leaf_node_offset(cell_num), bld)

\* a store of the key with its halves exchanged (a mutant of set_leaf_node_key)
set_leaf_node_key_swapped(node, cell_num, key, bld) ==
    IF ~CellInPage(node, cell_num) THEN [ res |-> "panic", node |-> node ]
    ELSE IF Traps(bld, leaf_node_offset(cell_num))
    THEN [ res |-> "abort", node |-> node ]
    ELSE [ res |-> "ok",
           node |-> CopyInto(node, leaf_node_offset(cell_num),
                             to_le_bytes(<< key[2], key[1] >>)) ]

\* the store *leaf_node_key(node, cell_num) = key
set_leaf_node_key(node, cell_num, key, bld) ==
    IF ~CellInPage(node, cell_num) THEN [ res |-> "panic", node |-> node ]
    ELSE IF Traps(bld, leaf_node_offset(cell_num))
    THEN [ res |-> "abort", node |-> node ]
    ELSE [ res |-> "ok",
           node |-> CopyInto(node, leaf_node_offset(cell_num), to_le_bytes(key)) ]

\* for a cell inside the page
leaf_node_value(node, cell_num) ==
    Slice(leaf_node_cell(node, cell_num), LEAF_NODE_KEY_SIZE,
          LEAF_NODE_KEY_SIZE + LEAF_NODE_VALUE_SIZE)

\* the offset in the page of the value of a cell
ValueOffset(cell_num) == leaf_node_offset(cell_num) + LEAF_NODE_KEY_SIZE

initialize_leaf_node(node, bld) == set_leaf_node_num_cells(node, as_u32(0), bld)

\* ------------------------------------------------------------------------
\* Row codec (main.rs 76-116)
\* ------------------------------------------------------------------------
\* Row: [id |-> u32, username |-> 33 bytes, email |-> 256 bytes]
NoRow == [ id |-> << 0, 0 >>, username |-> << >>, email |-> << >> ]

\* Row::serialize.  res = "ok" | "panic": a range of dest that does not
\* exist panics, after the copies before it were made
serialize(row, dest) ==
    IF Len(dest) < USERNAME_OFFSET THEN [ res |-> "panic", dest |-> dest ]
    ELSE
      LET d1 == CopyInto(dest, ID_OFFSET, to_le_bytes(row.id))
      IN  IF Len(dest) < EMAIL_OFFSET THEN [ res |-> "panic", dest |-> d1 ]
          ELSE
            LET d2 == CopyInto(d1, USERNAME_OFFSET, row.username)
            IN  IF Len(dest) < ROW_SIZE THEN [ res |-> "panic", dest |-> d2 ]
                ELSE [ res |-> "ok", dest |-> CopyInto(d2, EMAIL_OFFSET, row.email) ]

\* Row::deserialize of the slice src that begins `offset` bytes into a page.
\* res = "ok" | "abort" | "panic"
deserialize(src, offset, bld) ==
    IF Len(src) < USERNAME_OFFSET THEN [ res |-> "panic", row |-> NoRow ]
    ELSE
      Let(read_u32(Slice(src, ID_OFFSET, USERNAME_OFFSET), offset + ID_OFFSET, bld),
          LAMBDA id :
      IF id.res # "ok" THEN [ res |-> id.res, row |-> NoRow ]
      ELSE IF Len(src) < ROW_SIZE THEN [ res |-> "panic", row |-> NoRow ]
      ELSE [ res |-> "ok",
             row |-> [ id       |-> id.v,
                       username |-> Slice(src, USERNAME_OFFSET, EMAIL_OFFSET),
                       email    |-> Slice(src, EMAIL_OFFSET, ROW_SIZE) ] ])

\* the first index from i on that holds a zero byte (Len+1 if none)
FirstNul(bytes, i) ==
    CHOOSE j \in i..(Len(bytes) + 1) :
        /\ j > Len(bytes) \/ bytes[j] = 0
        /\ \A k \in i..(j - 1) : bytes[k] # 0

HasNul(bytes) == FirstNul(bytes, 1) <= Len(bytes)

\* CStr::from_bytes_until_nul: the bytes before the first zero byte
from_bytes_until_nul(bytes) == SubSeq(bytes, 1, FirstNul(bytes, 1) - 1)

\* a continuation byte of UTF-8
IsCont(b) == b \in 128..191

\* the byte at index i, 0 beyond the end (0 is no continuation byte)
ByteAt(bytes, i) == IF i <= Len(bytes) THEN bytes[i] ELSE 0

\* the length of the well-formed UTF-8 sequence that starts at index i, 0
\* when there is none (overlong forms, surrogates and code points above
\* U+10FFFF are not well formed)
Utf8Len(bytes, i) ==
    LET b1 == bytes[i]
        b2 == ByteAt(bytes, i + 1)
        b3 == ByteAt(bytes, i + 2)
        b4 == ByteAt(bytes, i + 3)
    IN  IF b1 < 128 THEN 1
        ELSE IF b1 \in 194..223 /\ IsCont(b2) THEN 2
        ELSE IF b1 = 224 /\ b2 \in 160..191 /\ IsCont(b3) THEN 3
        ELSE IF b1 \in (225..236) \cup {238, 239} /\ IsCont(b2) /\ IsCont(b3) THEN 3
        ELSE IF b1 = 237 /\ b2 \in 128..159 /\ IsCont(b3) THEN 3
        ELSE IF b1 = 240 /\ b2 \in 144..191 /\ IsCont(b3) /\ IsCont(b4) THEN 4
        ELSE IF b1 \in 241..243 /\ IsCont(b2) /\ IsCont(b3) /\ IsCont(b4) THEN 4
        ELSE IF b1 = 244 /\ b2 \in 128..143 /\ IsCont(b3) /\ IsCont(b4) THEN 4
        ELSE 0

\* CStr::to_str succeeds: every byte begins a well-formed sequence or
\* continues the one begun by the nearest byte before it that is no
\* continuation byte
IsUtf8(bytes) ==
    \A i \in 1..Len(bytes) :
        IF IsCont(bytes[i])
        THEN \E k \in 1..3 :
                /\ i - k >= 1
                /\ ~IsCont(bytes[i - k])
                /\ \A m \in 1..(k - 1) : IsCont(bytes[i - m])
                /\ Utf8Len(bytes, i - k) > k
        ELSE Utf8Len(bytes, i) > 0

\* impl Display for Row panics: an unwrap of from_bytes_until_nul (the field
\* holds no nul byte) or of to_str (the bytes before the nul are not UTF-8)
DisplayPanics(row) ==
    \/ ~HasNul(row.username)
    \/ ~IsUtf8(from_bytes_until_nul(row.username))
    \/ ~HasNul(row.email)
    \/ ~IsUtf8(from_bytes_until_nul(row.email))

\* impl Display for Row: the fields of the printed line "(id, username, email)"
Display(row) ==
    [ kind |-> "row", arg |-> << >>, id |-> row.id,
      username |-> from_bytes_until_nul(row.username),
      email |-> from_bytes_until_nul(row.email) ]

\* a printed line that is not a row
Line(kind, arg) ==
    [ kind |-> kind, arg |-> arg, id |-> << >>, username |-> << >>, email |-> << >> ]

\* ------------------------------------------------------------------------
\* Pager (main.rs 118-199)
\* ------------------------------------------------------------------------
\* Pager: [file_length, num_pages, pages], pages[i] = << >> for an empty Vec.
\* The file is passed alongside: it is the content behind the File handle.

\* Pager::open, after File::options()...open(path) produced the handle.
\* res = "ok" | "InvalidData"
Pager_open(file) ==
    LET file_length == Len(file)
        num_pages == file_length \div PAGE_SIZE
    IN  IF file_length % PAGE_SIZE # 0
        THEN [ res |-> "InvalidData", pager |-> << >> ]
        ELSE [ res |-> "ok",
               pager |-> [ file_length |-> file_length,
                           num_pages |-> num_pages,
                           pages |-> [i \in 0..(TABLE_MAX_PAGES - 1) |-> << >>] ] ]

\* FileExt::read_at(buf, offset) on a regular file: the bytes of the file from
\* offset on, as many as there are and fit, land at the start of buf
read_at(file, buf, offset) ==
    LET avail == IF offset >= Len(file) THEN 0 ELSE Len(file) - offset
        n == IF avail < Len(buf) THEN avail ELSE Len(buf)
    IN  SubSeq(file, offset + 1, offset + n) \o SubSeq(buf, n + 1, Len(buf))

\* FileExt::write_all_at(data, offset): a write past the end leaves a zero gap
write_all_at(file, data, offset) ==
    IF offset >= Len(file)
    THEN file \o Zeros(offset - Len(file)) \o data
    ELSE SubSeq(file, 1, offset) \o data
         \o SubSeq(file, offset + Len(data) + 1, Len(file))

\* the check at the head of get_page: it panics with "Tried to fetch page
\* number out of bounds"
OutOfBoundsCheck(page_num) == page_num > TABLE_MAX_PAGES

\* self.pages[page_num] on the array of TABLE_MAX_PAGES slots panics with
\* "index out of bounds"
IndexPanics(pager, page_num) == page_num \notin DOMAIN pager.pages

\* Pager::get_page.  readOk: whether the positioned read succeeds, if issued.
\* res = "ok" | "err" (io::Error) | "panic"; reads = offsets read_at was
\* called with.
get_page(pager, file, page_num, readOk) ==
    IF OutOfBoundsCheck(page_num)
    THEN [ res |-> "panic", pager |-> pager, reads |-> << >> ]
    ELSE IF IndexPanics(pager, page_num)
    THEN \* self.pages[page_num]: index out of bounds of the array
         [ res |-> "panic", pager |-> pager, reads |-> << >> ]
    ELSE IF pager.pages[page_num] # << >>
    THEN [ res |-> "ok", pager |-> pager, reads |-> << >> ]
    ELSE
      LET resized == ZeroPage
          num_pages == (pager.file_length \div PAGE_SIZE)
                       + (IF pager.file_length % PAGE_SIZE > 0 THEN 1 ELSE 0)
          doRead == page_num <= num_pages
          offset == page_num * PAGE_SIZE
          reads == IF doRead THEN << offset >> ELSE << >>
      IN  IF doRead /\ ~readOk
          THEN [ res |-> "err",
                 pager |-> [pager EXCEPT !.pages[page_num] = resized],
                 reads |-> reads ]
          ELSE
            LET page == IF doRead THEN read_at(file, resized, offset) ELSE resized
                np == IF page_num >= pager.num_pages
                      THEN page_num + 1 ELSE pager.num_pages
            IN  [ res |-> "ok",
                  pager |-> [pager EXCEPT !.pages[page_num] = page,
                                          !.num_pages = np],
                  reads |-> reads ]

\* flush with the page written one page too far (a mutant of flush)
flush_next_page(pager, file, page_num) ==
    IF IndexPanics(pager, page_num) \/ Len(pager.pages[page_num]) < PAGE_SIZE
    THEN [ res |-> "panic", file |-> file, writes |-> << >> ]
    ELSE LET offset == (page_num + 1) * PAGE_SIZE
         IN  [ res |-> "ok",
               file |-> write_all_at(file, Slice(pager.pages[page_num], 0, PAGE_SIZE),
                                     offset),
               writes |-> << [page |-> page_num, offset |-> offset] >> ]

\* Pager::flush.  res = "ok" | "panic"; writes = [page, offset] of the write.
\* It panics, with nothing written, at self.pages[page_num] outside the
\* array, on an empty page ("Tried to flush empty page") and at the slice
\* [..PAGE_SIZE] of a page shorter than PAGE_SIZE.
flush(pager, file, page_num) ==
    IF IndexPanics(pager, page_num)
    THEN [ res |-> "panic", file |-> file, writes |-> << >> ]
    ELSE IF pager.pages[page_num] = << >>
    THEN [ res |-> "panic", file |-> file, writes |-> << >> ]
    ELSE IF Len(pager.pages[page_num]) < PAGE_SIZE
    THEN [ res |-> "panic", file |-> file, writes |-> << >> ]
    ELSE LET offset == page_num * PAGE_SIZE
         IN  [ res |-> "ok",
               file |-> write_all_at(file, Slice(pager.pages[page_num], 0, PAGE_SIZE),
                                     offset),
               writes |-> << [page |-> page_num, offset |-> offset] >> ]

\* ------------------------------------------------------------------------
\* Table (main.rs 201-230, 286-329)
\* ------------------------------------------------------------------------
\* db_open.  res = "ok" | "InvalidData" | "err" | "abort" | "panic"; the
\* Table is its pager (root_page_num is always 0).
root_page_num == 0

db_open(file, readOk, bld) ==
    Let(Pager_open(file), LAMBDA o :
    IF o.res # "ok" THEN [ res |-> o.res, pager |-> << >> ]
    ELSE IF o.pager.num_pages = 0
    THEN
      Let(get_page(o.pager, file, root_page_num, readOk), LAMBDA g :
      IF g.res # "ok" THEN [ res |-> g.res, pager |-> << >> ]
      ELSE
        Let(initialize_leaf_node(g.pager.pages[root_page_num], bld), LAMBDA init :
        IF init.res # "ok" THEN [ res |-> init.res, pager |-> << >> ]
        ELSE [ res |-> "ok",
               pager |-> [g.pager EXCEPT !.pages[root_page_num] = init.node] ]))
    ELSE [ res |-> "ok", pager |-> o.pager ])

\* the loop of db_close from index i on.  res = "ok" | "panic": the loop
\* panics at table.pager.pages[i] when i is outside the array (num_pages
\* above TABLE_MAX_PAGES) and where flush panics; the writes made before
\* stay.  The empty pages, which the loop passes with `continue`, are passed
\* in one step: j is the first index from i on where the loop ends, panics
\* or finds a page.
RECURSIVE db_close_from(_, _, _)
db_close_from(pager, file, i) ==
    LET stops(k) == \/ k >= pager.num_pages
                    \/ IndexPanics(pager, k)
                    \/ pager.pages[k] # << >>
    IN  Let(CHOOSE j \in i..(IF pager.num_pages > i THEN pager.num_pages ELSE i) :
              stops(j) /\ \A k \in i..(j - 1) : ~stops(k), LAMBDA j :
        IF j >= pager.num_pages
        THEN [ res |-> "ok", file |-> file, writes |-> << >> ]
        ELSE IF IndexPanics(pager, j)
        THEN [ res |-> "panic", file |-> file, writes |-> << >> ]
        ELSE
          Let(flush(pager, file, j), LAMBDA f :
          IF f.res # "ok" THEN f
          ELSE
            Let(db_close_from(pager, f.file, j + 1), LAMBDA rest :
            [ res |-> rest.res, file |-> rest.file,
              writes |-> f.writes \o rest.writes ])))

\* db_close (and Drop for Table, which calls it)
db_close(pager, file) == db_close_from(pager, file, 0)

\* Cursor: [page_num, cell_num, end_of_table]
\* Table::table_start / table_end on the loaded root node.
\* res = "ok" | "abort" | "panic"
table_start(node, bld) ==
    Let(leaf_node_num_cells(node, bld), LAMBDA n :
    [ res |-> n.res,
      cursor |-> [ page_num |-> root_page_num, cell_num |-> 0,
                   end_of_table |-> (as_usize(n.v) = 0) ] ])

table_end(node, bld) ==
    Let(leaf_node_num_cells(node, bld), LAMBDA n :
    [ res |-> n.res,
      cursor |-> [ page_num |-> root_page_num, cell_num |-> as_usize(n.v),
                   end_of_table |-> TRUE ] ])

\* Cursor::advance on the loaded node.  res = "ok" | "abort" | "panic"
advance(cursor, node, bld) ==
    Let(leaf_node_num_cells(node, bld), LAMBDA n :
    [ res |-> n.res,
      cursor |-> [ cursor EXCEPT
                     !.cell_num = cursor.cell_num + 1,
                     !.end_of_table =
                        (cursor.end_of_table
                         \/ (n.res = "ok" /\ cursor.cell_num + 1 >= as_usize(n.v))) ] ])

\* the shifting loop of leaf_node_insert: for i in (lo..=hi).rev(),
\* cell i-1 is copied over cell i.  res = "ok" | "panic": the slice
\* node[offset(i-1)..offset(i+1)] does not exist in a node that ends before
\* cell i does
RECURSIVE ShiftCells(_, _, _)
ShiftCells(node, lo, i) ==
    IF i < lo THEN [ res |-> "ok", node |-> node ]
    ELSE IF ~CellInPage(node, i) THEN [ res |-> "panic", node |-> node ]
    ELSE ShiftCells(CopyInto(node, leaf_node_offset(i), leaf_node_cell(node, i - 1)),
                    lo, i - 1)

\* Cursor::leaf_node_insert on the loaded node.
\* res = "ok" | "err" (need to implement splitting) | "abort" | "panic";
\* node = the page as the call left it
leaf_node_insert(node, cursor, key, value, bld) ==
    Let(leaf_node_num_cells(node, bld), LAMBDA n :
    IF n.res # "ok" THEN [ res |-> n.res, node |-> node ]
    ELSE IF as_usize(n.v) >= LEAF_NODE_MAX_CELLS
    THEN [ res |-> "err", node |-> node ]
    ELSE
      Let(IF cursor.cell_num <= as_usize(n.v)
          THEN ShiftCells(node, cursor.cell_num + 1, as_usize(n.v))
          ELSE [ res |-> "ok", node |-> node ], LAMBDA shifted :
      IF shifted.res # "ok" THEN shifted
      ELSE
        Let(set_leaf_node_num_cells(shifted.node, as_u32(as_usize(n.v) + 1), bld),
            LAMBDA counted :
        IF counted.res # "ok" THEN [ res |-> counted.res, node |-> shifted.node ]
        ELSE
          Let(set_leaf_node_key(counted.node, cursor.cell_num, key, bld),
              LAMBDA keyed :
          IF keyed.res # "ok" THEN [ res |-> keyed.res, node |-> counted.node ]
          ELSE
            Let(serialize(value, leaf_node_value(keyed.node, cursor.cell_num)),
                LAMBDA s :
            [ res |-> s.res,
              node |-> CopyInto(keyed.node, ValueOffset(cursor.cell_num),
                                s.dest) ])))))

\* ------------------------------------------------------------------------
\* Input text (str::trim, split_whitespace, starts_with, parse::<i64>)
\* ------------------------------------------------------------------------
\* The length in bytes of the white-space character (char::is_whitespace,
\* the Unicode property White_Space) whose UTF-8 encoding starts at index i
\* of s, 0 when none starts there: U+0009..U+000D, U+0020, U+0085, U+00A0,
\* U+1680, U+2000..U+200A, U+2028, U+2029, U+202F, U+205F, U+3000
WsLen(s, i) ==
    LET b1 == s[i]
        b2 == ByteAt(s, i + 1)
        b3 == ByteAt(s, i + 2)
    IN  IF b1 \in {9, 10, 11, 12, 13, 32} THEN 1
        ELSE IF b1 < 128 THEN 0
        ELSE IF b1 = 194 /\ b2 \in {133, 160} THEN 2
        ELSE IF b1 = 225 /\ b2 = 154 /\ b3 = 128 THEN 3
        ELSE IF b1 = 226 /\ b2 = 128 /\ b3 \in (128..138) \cup {168, 169, 175} THEN 3
        ELSE IF b1 = 226 /\ b2 = 129 /\ b3 = 159 THEN 3
        ELSE IF b1 = 227 /\ b2 = 128 /\ b3 = 128 THEN 3
        ELSE 0

\* the byte at index i of the text s belongs to a white-space character: it
\* is one, or it is the second or third byte of one
IsWs(s, i) ==
    IF s[i] < 128 THEN WsLen(s, i) = 1
    ELSE \/ WsLen(s, i) > 0
         \/ i > 1 /\ WsLen(s, i - 1) >= 2
         \/ i > 2 /\ WsLen(s, i - 2) = 3

\* the first index from i on that holds no white space (Len+1 if none)
SkipWs(s, i) ==
    CHOOSE j \in i..(Len(s) + 1) :
        /\ j > Len(s) \/ ~IsWs(s, j)
        /\ \A k \in i..(j - 1) : IsWs(s, k)

\* the first index from i on that holds white space (Len+1 if none)
SkipWord(s, i) ==
    CHOOSE j \in i..(Len(s) + 1) :
        /\ j > Len(s) \/ IsWs(s, j)
        /\ \A k \in i..(j - 1) : ~IsWs(s, k)

\* the last index up to i that holds no white space (0 if none)
LastNonWs(s, i) ==
    CHOOSE j \in 0..i :
        /\ j = 0 \/ ~IsWs(s, j)
        /\ \A k \in (j + 1)..i : IsWs(s, k)

\* str::trim
trim(s) == SubSeq(s, SkipWs(s, 1), LastNonWs(s, Len(s)))

\* str::split_whitespace().collect()
RECURSIVE TokensFrom(_, _)
TokensFrom(s, i) ==
    Let(SkipWs(s, i), LAMBDA a :
    IF a > Len(s) THEN << >>
    ELSE Let(SkipWord(s, a), LAMBDA b :
         << SubSeq(s, a, b - 1) >> \o TokensFrom(s, b)))

split_whitespace(s) == TokensFrom(s, 1)

\* str::starts_with
starts_with(s, prefix) ==
    Len(s) >= Len(prefix) /\ SubSeq(s, 1, Len(prefix)) = prefix

IsDigit(b) == b \in 48..57

\* acc * 10 + d on four 16-bit limbs; carry is the overflow out of 64 bits
RECURSIVE MulAdd(_, _, _)
MulAdd(limbs, i, carry) ==
    IF i > Len(limbs) THEN [ limbs |-> limbs, carry |-> carry ]
    ELSE LET v == limbs[i] * 10 + carry
         IN  MulAdd([limbs EXCEPT ![i] = v % Limb], i + 1, v \div Limb)

\* the decimal digits s[i..] folded into the magnitude acc
RECURSIVE Digits(_, _, _)
Digits(s, i, acc) ==
    IF i > Len(s) THEN [ ok |-> TRUE, mag |-> acc ]
    ELSE IF ~IsDigit(s[i]) THEN [ ok |-> FALSE, mag |-> acc ]
    ELSE Let(MulAdd(acc, 1, s[i] - 48), LAMBDA m :
         IF m.carry > 0 THEN [ ok |-> FALSE, mag |-> acc ]
         ELSE Digits(s, i + 1, m.limbs))

\* str::parse::<i64>: an optional sign, at least one digit, digits only, and
\* the value within i64.  [ok, neg, mag]: mag is the magnitude, neg its sign
parse_i64(tok) ==
    LET neg == Len(tok) > 0 /\ tok[1] = 45
        first == IF Len(tok) > 0 /\ tok[1] \in {43, 45} THEN 2 ELSE 1
        top == 128 * 256
    IN  Let(Digits(tok, first, << 0, 0, 0, 0 >>), LAMBDA d :
        IF \/ first > Len(tok)
           \/ ~d.ok
           \/ ~(d.mag[4] < top \/ (neg /\ d.mag = << 0, 0, 0, top >>))
        THEN [ ok |-> FALSE, neg |-> FALSE, mag |-> << 0, 0, 0, 0 >> ]
        ELSE [ ok |-> TRUE, neg |-> neg /\ d.mag # << 0, 0, 0, 0 >>,
               mag |-> d.mag ])

\* `id as u32` of a non-negative i64: the low 32 bits
i64_as_u32(v) == << v.mag[1], v.mag[2] >>

\* the text "insert", "select", ".", ".exit", ".constants", ".btree"
KwInsert == << 105, 110, 115, 101, 114, 116 >>
KwSelect == << 115, 101, 108, 101, 99, 116 >>
KwDot == << 46 >>
KwExit == << 46, 101, 120, 105, 116 >>
KwConstants == << 46, 99, 111, 110, 115, 116, 97, 110, 116, 115 >>
KwBtree == << 46, 98, 116, 114, 101, 101 >>

\* ------------------------------------------------------------------------
\* Statements (main.rs 374-472)
\* ------------------------------------------------------------------------

\* prepare_statement without the check of the sign (a mutant of
\* prepare_statement)
prepare_statement_unsigned(input) ==
    IF starts_with(input, KwInsert)
    THEN
      Let(split_whitespace(input), LAMBDA tokens :
      IF Len(tokens) # 4 THEN [ res |-> "SyntaxError", row |-> NoRow ]
      ELSE
        Let(parse_i64(tokens[2]), LAMBDA id :
        LET username == tokens[3]
            email == tokens[4]
        IN  IF ~id.ok THEN [ res |-> "SyntaxError", row |-> NoRow ]
            ELSE IF Len(username) > COLUMN_USERNAME_SIZE
            THEN [ res |-> "StringTooLong", row |-> NoRow ]
            ELSE IF Len(email) > COLUMN_EMAIL_SIZE
            THEN [ res |-> "StringTooLong", row |-> NoRow ]
            ELSE [ res |-> "Insert",
                   row |-> [ id |-> i64_as_u32(id),
                             username |-> CopyInto(Zeros(COLUMN_USERNAME_SIZE + 1),
                                                   0, username),
                             email |-> CopyInto(Zeros(COLUMN_EMAIL_SIZE + 1),
                                                0, email) ] ]))
    ELSE IF starts_with(input, KwSelect)
    THEN [ res |-> "Select", row |-> NoRow ]
    ELSE [ res |-> "UnrecognizedKeyword", row |-> NoRow ]

\* prepare_statement.  res = "Insert" | "Select" | "NegativeId" |
\* "StringTooLong" | "SyntaxError" | "UnrecognizedKeyword"
prepare_statement(input) ==
    IF starts_with(input, KwInsert)
    THEN
      Let(split_whitespace(input), LAMBDA tokens :
      IF Len(tokens) # 4 THEN [ res |-> "SyntaxError", row |-> NoRow ]
      ELSE
        Let(parse_i64(tokens[2]), LAMBDA id :
        LET username == tokens[3]
            email == tokens[4]
        IN  IF ~id.ok THEN [ res |-> "SyntaxError", row |-> NoRow ]
            ELSE IF id.neg THEN [ res |-> "NegativeId", row |-> NoRow ]
            ELSE IF Len(username) > COLUMN_USERNAME_SIZE
            THEN [ res |-> "StringTooLong", row |-> NoRow ]
            ELSE IF Len(email) > COLUMN_EMAIL_SIZE
            THEN [ res |-> "StringTooLong", row |-> NoRow ]
            ELSE [ res |-> "Insert",
                   row |-> [ id |-> i64_as_u32(id),
                             username |-> CopyInto(Zeros(COLUMN_USERNAME_SIZE + 1),
                                                   0, username),
                             email |-> CopyInto(Zeros(COLUMN_EMAIL_SIZE + 1),
                                                0, email) ] ]))
    ELSE IF starts_with(input, KwSelect)
    THEN [ res |-> "Select", row |-> NoRow ]
    ELSE [ res |-> "UnrecognizedKeyword", row |-> NoRow ]

\* execute_insert that inserts at the key's place in ascending order (a
\* mutant of execute_insert)
execute_insert_by_key(row, pager, file, readOk, bld) ==
    Let(get_page(pager, file, root_page_num, readOk), LAMBDA g :
    IF g.res = "err" THEN [ res |-> "CursorError", pager |-> g.pager ]
    ELSE IF g.res = "panic" THEN [ res |-> "panic", pager |-> g.pager ]
    ELSE
      Let(leaf_node_num_cells(g.pager.pages[root_page_num], bld), LAMBDA count :
      IF count.res # "ok" THEN [ res |-> count.res, pager |-> g.pager ]
      ELSE IF as_usize(count.v) >= LEAF_NODE_MAX_CELLS
      THEN [ res |-> "TableFull", pager |-> g.pager ]
      ELSE
        Let(leaf_node_insert(
              g.pager.pages[root_page_num],
              [ page_num |-> root_page_num,
                cell_num |-> Cardinality(
                    {i \in 0..(as_usize(count.v) - 1) :
                       U32Less(leaf_node_key(g.pager.pages[root_page_num], i, bld).v,
                               row.id)}),
                end_of_table |-> FALSE ],
              row.id, row, bld), LAMBDA ins :
        [ res |-> IF ins.res = "err" THEN "CursorError" ELSE ins.res,
          pager |-> [g.pager EXCEPT !.pages[root_page_num] = ins.node] ])))

\* execute_insert.
\* res = "ok" | "TableFull" | "CursorError" | "abort" | "panic"
execute_insert(row, pager, file, readOk, bld) ==
    Let(get_page(pager, file, root_page_num, readOk), LAMBDA g :
    IF g.res = "err" THEN [ res |-> "CursorError", pager |-> g.pager ]
    ELSE IF g.res = "panic" THEN [ res |-> "panic", pager |-> g.pager ]
    ELSE
      Let(leaf_node_num_cells(g.pager.pages[root_page_num], bld), LAMBDA count :
      IF count.res # "ok" THEN [ res |-> count.res, pager |-> g.pager ]
      ELSE IF as_usize(count.v) >= LEAF_NODE_MAX_CELLS
      THEN [ res |-> "TableFull", pager |-> g.pager ]
      ELSE
        Let(table_end(g.pager.pages[root_page_num], bld), LAMBDA end :
        IF end.res # "ok" THEN [ res |-> end.res, pager |-> g.pager ]
        ELSE
          Let(leaf_node_insert(g.pager.pages[root_page_num], end.cursor,
                               row.id, row, bld), LAMBDA ins :
          [ res |-> IF ins.res = "err" THEN "CursorError" ELSE ins.res,
            pager |-> [g.pager EXCEPT !.pages[root_page_num] = ins.node] ]))))

\* the while loop of execute_select on the loaded node: the rows printed, and
\* how the loop ended.  res = "ok" | "abort" | "panic"
RECURSIVE select_loop(_, _, _, _)
select_loop(node, cursor, printed, bld) ==
    IF cursor.end_of_table THEN [ res |-> "ok", out |-> printed ]
    ELSE IF ~CellInPage(node, cursor.cell_num)
    THEN [ res |-> "panic", out |-> printed ]
    ELSE
      Let(deserialize(leaf_node_value(node, cursor.cell_num),
                      ValueOffset(cursor.cell_num), bld), LAMBDA d :
      IF d.res # "ok" THEN [ res |-> d.res, out |-> printed ]
      ELSE IF DisplayPanics(d.row) THEN [ res |-> "panic", out |-> printed ]
      ELSE
        Let(Append(printed, Display(d.row)), LAMBDA shown :
        Let(advance(cursor, node, bld), LAMBDA a :
        IF a.res # "ok" THEN [ res |-> a.res, out |-> shown ]
        ELSE select_loop(node, a.cursor, shown, bld))))

\* execute_select once the root node is loaded: table_start and the loop
ScanOf(node, bld) ==
    Let(table_start(node, bld), LAMBDA start :
    IF start.res # "ok" THEN [ res |-> start.res, out |-> << >> ]
    ELSE select_loop(node, start.cursor, << >>, bld))

\* execute_select.  res = "ok" | "CursorError" | "abort" | "panic"
execute_select(pager, file, readOk, bld) ==
    Let(get_page(pager, file, root_page_num, readOk), LAMBDA g :
    IF g.res = "err"
    THEN [ res |-> "CursorError", pager |-> g.pager, out |-> << >> ]
    ELSE IF g.res = "panic"
    THEN [ res |-> "panic", pager |-> g.pager, out |-> << >> ]
    ELSE
      Let(ScanOf(g.pager.pages[root_page_num], bld), LAMBDA l :
      [ res |-> l.res, pager |-> g.pager, out |-> l.out ]))

\* execute_statement
execute_statement(statement, pager, file, readOk, bld) ==
    IF statement.res = "Insert"
    THEN Let(execute_insert(statement.row, pager, file, readOk, bld), LAMBDA r :
         [ res |-> r.res, pager |-> r.pager, out |-> << >> ])
    ELSE execute_select(pager, file, readOk, bld)

\* ------------------------------------------------------------------------
\* Meta commands (main.rs 331-372)
\* ------------------------------------------------------------------------
print_constants ==
    << Line("ROW_SIZE", << ROW_SIZE >>),
       Line("COMMON_NODE_HEADER_SIZE", << COMMON_NODE_HEADER_SIZE >>),
       Line("LEAF_NODE_HEADER_SIZE", << LEAF_NODE_HEADER_SIZE >>),
       Line("LEAF_NODE_CELL_SIZE", << LEAF_NODE_CELL_SIZE >>),
       Line("LEAF_NODE_SPACE_FOR_CELLS", << LEAF_NODE_SPACE_FOR_CELLS >>),
       Line("LEAF_NODE_MAX_CELLS", << LEAF_NODE_MAX_CELLS >>) >>

\* the lines "  - i : key" of print_leaf_node from cell i on, up to the
\* cell whose key could not be read
RECURSIVE print_cells(_, _, _, _)
print_cells(node, i, num_cells, bld) ==
    IF i >= num_cells THEN [ res |-> "ok", out |-> << >> ]
    ELSE
      Let(leaf_node_key(node, i, bld), LAMBDA key :
      IF key.res # "ok" THEN [ res |-> key.res, out |-> << >> ]
      ELSE
        Let(print_cells(node, i + 1, num_cells, bld), LAMBDA rest :
        [ res |-> rest.res,
          out |-> << Line("cell", << as_u32(i), key.v >>) >> \o rest.out ]))

\* print_leaf_node.  res = "ok" | "abort" | "panic"
print_leaf_node(node, bld) ==
    Let(leaf_node_num_cells(node, bld), LAMBDA count :
    IF count.res # "ok" THEN [ res |-> count.res, out |-> << >> ]
    ELSE
      Let(print_cells(node, 0, as_usize(count.v), bld), LAMBDA cells :
      [ res |-> cells.res,
        out |-> << Line("leaf", << count.v >>) >> \o cells.out ]))

\* db_meta_command.
\* res = "ok" | "Exit" | "UnrecognizedCommand" | "abort" | "panic"
db_meta_command(input, pager, file, readOk, bld) ==
    IF input = KwExit
    THEN [ res |-> "Exit", pager |-> pager, out |-> << >> ]
    ELSE IF input = KwConstants
    THEN [ res |-> "ok", pager |-> pager,
           out |-> << Line("Constants:", << >>) >> \o print_constants ]
    ELSE IF input = KwBtree
    THEN
      Let(get_page(pager, file, 0, readOk), LAMBDA g :
      IF g.res # "ok"
      THEN [ res |-> "panic", pager |-> g.pager,
             out |-> << Line("Tree:", << >>) >> ]
      ELSE
        Let(print_leaf_node(g.pager.pages[0], bld), LAMBDA p :
        [ res |-> p.res, pager |-> g.pager,
          out |-> << Line("Tree:", << >>) >> \o p.out ]))
    ELSE [ res |-> "UnrecognizedCommand", pager |-> pager, out |-> << >> ]

\* ------------------------------------------------------------------------
\* One iteration of the loop of main (main.rs 491-526), after read_input
\* returned the line `raw`.  ctl = "continue" | "break" | "panic" | "abort"
\* ------------------------------------------------------------------------
Error(kind, arg) == Line("Error", << kind >> \o arg)

\* prepare_statement and execute_statement of the iteration (main.rs 510-525);
\* `printed` is what the iteration printed before
main_statement(input, pager, file, readOk, printed, bld) ==
    Let(prepare_statement(input), LAMBDA statement :
    IF statement.res \notin {"Insert", "Select"}
    THEN [ ctl |-> "continue", pager |-> pager,
           out |-> Append(printed, Error(statement.res, << >>)) ]
    ELSE
      Let(execute_statement(statement, pager, file, readOk, bld), LAMBDA e :
      IF e.res \in {"panic", "abort"}
      THEN [ ctl |-> e.res, pager |-> e.pager, out |-> printed \o e.out ]
      ELSE IF e.res = "ok"
      THEN [ ctl |-> "continue", pager |-> e.pager,
             out |-> (printed \o e.out) \o << Line("Executed.", << >>) >> ]
      ELSE [ ctl |-> "continue", pager |-> e.pager,
             out |-> (printed \o e.out) \o << Error(e.res, << >>) >> ]))

main_iteration(raw, pager, file, readOk, bld) ==
    Let(trim(raw), LAMBDA input :
    IF starts_with(input, KwDot)
    THEN
      Let(db_meta_command(input, pager, file, readOk, bld), LAMBDA m :
      IF m.res = "ok"
      THEN [ ctl |-> "continue", pager |-> m.pager, out |-> m.out ]
      ELSE IF m.res = "Exit"
      THEN [ ctl |-> "break", pager |-> m.pager, out |-> m.out ]
      ELSE IF m.res \in {"panic", "abort"}
      THEN [ ctl |-> m.res, pager |-> m.pager, out |-> m.out ]
      ELSE \* Err(e) prints and the arm ends without `continue`
           main_statement(input, m.pager, file, readOk,
                          Append(m.out, Error(m.res, << >>)), bld))
    ELSE main_statement(input, pager, file, readOk, << >>, bld))

\* ------------------------------------------------------------------------
\* Bounds of the exploration
\* ------------------------------------------------------------------------
\* The table is explored freely (every input line, end of input, a failing
\* stdin) while fewer than MaxVaried inserts have succeeded since the table
\* was empty, and again from the last free cell on.  In between the input
\* only fills the table: it is the insert of FillId.
MaxVaried == 2

Filling(n) == MaxVaried <= n /\ n < LEAF_NODE_MAX_CELLS - 1

\* ------------------------------------------------------------------------
\* Input lines
\* ------------------------------------------------------------------------
Rep(b, n) == [i \in 1..n |-> b]

InsertLine(id, username, email) ==
    KwInsert \o << 32 >> \o id \o << 32 >> \o username \o << 32 >> \o email \o << 10 >>

\* "insert <d> u<d> e<d>\n" for a digit d
PlainInsert(d) == InsertLine(<< d >>, << 117, d >>, << 101, d >>)

\* the ids 1, 3
VariedIds == {49, 51}
\* the id 2
FillId == {50}

\* "insert 1 aaa..a(32) aaa..a(255)" and "insert 4294967297 u e"
MaxLengthInsert ==
    InsertLine(<< 49 >>, Rep(97, COLUMN_USERNAME_SIZE), Rep(97, COLUMN_EMAIL_SIZE))
BigIdInsert ==
    InsertLine(<< 52, 50, 57, 52, 57, 54, 55, 50, 57, 55 >>, << 117 >>, << 101 >>)
SpecialInserts == {MaxLengthInsert, BigIdInsert}

\* lines that prepare_statement rejects
NegativeIdLine == InsertLine(<< 45, 49 >>, << 117 >>, << 101 >>)
LongUsernameLine ==
    InsertLine(<< 49 >>, Rep(97, COLUMN_USERNAME_SIZE + 1), << 101 >>)
LongEmailLine ==
    InsertLine(<< 49 >>, << 117 >>, Rep(97, COLUMN_EMAIL_SIZE + 1))
ThreeTokenLine == KwInsert \o << 32, 49, 32, 117, 10 >>
UnknownKeywordLine == << 102, 111, 111, 10 >>
\* an insert of a negative id whose white space is not ASCII: U+2028 insert
\* U+00A0 -1 U+2003 u U+3000 e U+0085 \n
WideNegativeIdLine ==
    << 226, 128, 168 >> \o KwInsert \o << 194, 160, 45, 49, 226, 128, 131, 117,
       227, 128, 128, 101, 194, 133, 10 >>
RejectedLines ==
    {NegativeIdLine, LongUsernameLine, LongEmailLine, ThreeTokenLine,
     UnknownKeywordLine, WideNegativeIdLine}

\* ".foo", "  select", ".btree", ".constants", ".exit"
UnknownMetaLine == << 46, 102, 111, 111, 10 >>
SelectLine == << 32, 32 >> \o KwSelect \o << 10 >>
BtreeLine == KwBtree \o << 10 >>
ConstantsLine == KwConstants \o << 10 >>
ExitLine == KwExit \o << 10 >>

\* the lines offered when n inserts have succeeded since the table was empty;
\* the special rows are offered as the first row only
InsertLines(n) ==
    {PlainInsert(d) : d \in (IF n < MaxVaried THEN VariedIds ELSE FillId)}
    \cup (IF n = 0 THEN SpecialInserts ELSE {})

Lines(n) ==
    IF Filling(n) THEN InsertLines(n)
    ELSE InsertLines(n) \cup RejectedLines
         \cup {UnknownMetaLine, SelectLine, BtreeLine, ConstantsLine, ExitLine}

\* ------------------------------------------------------------------------
\* What a page holds, read byte by byte
\* ------------------------------------------------------------------------
\* the cell count in the header of a leaf
NumCellsOf(node) ==
    as_usize(from_le_bytes(Slice(node, LEAF_NODE_NUM_CELLS_OFFSET,
                                 LEAF_NODE_HEADER_SIZE)))

\* the key of a cell
KeyOf(node, i) == from_le_bytes(Slice(leaf_node_cell(node, i), 0, LEAF_NODE_KEY_SIZE))

\* the row serialized in a cell
RowOf(node, i) ==
    LET src == leaf_node_value(node, i)
    IN  [ id       |-> from_le_bytes(Slice(src, ID_OFFSET, USERNAME_OFFSET)),
          username |-> Slice(src, USERNAME_OFFSET, EMAIL_OFFSET),
          email    |-> Slice(src, EMAIL_OFFSET, ROW_SIZE) ]

\* the keys of a leaf, cell 0 first
KeysOf(node) == [i \in 1..NumCellsOf(node) |-> KeyOf(node, i - 1)]

\* the serialized rows of a leaf, cell 0 first
ValuesOf(node) == [i \in 1..NumCellsOf(node) |-> leaf_node_value(node, i - 1)]

\* ------------------------------------------------------------------------
\* Files the program is started on
\* ------------------------------------------------------------------------
\* the file that a run of the release build leaves which was started on a
\* new file and read "insert 1 u1 e1" and ".exit"
OneRowFile ==
    db_close(execute_insert(prepare_statement(trim(PlainInsert(49))).row,
                            db_open(<< >>, TRUE, "release").pager,
                            << >>, TRUE, "release").pager,
             << >>).file

\* a new (empty) file, two files that are not a whole number of pages, and
\* the files of a table of no row and of one row
InitFiles ==
    { << >>, << 1, 2, 3, 4, 5, 6, 7 >>, ZeroPage \o << 1 >>, ZeroPage, OneRowFile }

\* the keys of the rows that a file holds when the program starts: those of
\* the cells of page 0 that lie in the page, for a file of one or more whole
\* pages (Pager::open takes it and the root is page 0, whatever follows it);
\* none for an empty file and for a file that Pager::open refuses
KeysIn(f) ==
    IF Len(f) >= PAGE_SIZE /\ Len(f) % PAGE_SIZE = 0
    THEN [i \in 1..(IF NumCellsOf(Slice(f, 0, PAGE_SIZE)) > LEAF_NODE_MAX_CELLS
                    THEN LEAF_NODE_MAX_CELLS
                    ELSE NumCellsOf(Slice(f, 0, PAGE_SIZE))) |->
             KeyOf(Slice(f, 0, PAGE_SIZE), i - 1)]
    ELSE << >>

\* ------------------------------------------------------------------------
\* State
\* ------------------------------------------------------------------------
VARIABLES
    file,       \* content of the backing file
    build,      \* the build of the program that runs: "debug" | "release"
    disk,       \* "sound": positioned reads succeed; "failing": one may fail
    pc,         \* "off" | "loop" | "exited" | "panicked" | "aborted" | "failed"
    pager,      \* the Table's Pager while pc = "loop" (kept when the run ends)
    input,      \* the line read by the last iteration
    out,        \* the lines the last step printed (without the prompt)
    eof,        \* stdin is exhausted
    inserted,   \* history: keys of the successful inserts, oldest first
    closes,     \* history: calls of db_close in this run
    writes,     \* history: the page writes of this run's db_close
    atClose,    \* history: the root node as seen just before the close, while
                \* the process is down
    emptyReads, \* history: reads of this run that returned Ok(0): 0 for none,
                \* then 1 for an odd and 2 for an even number of them
    unit        \* a call of one function on its own (UnitSpec); NoUnit otherwise

vars == << file, build, disk, pc, pager, input, out, eof, inserted, closes, writes,
           atClose, emptyReads, unit >>

NoPager == << >>

NoUnit == [ op |-> "none" ]

\* the root node a command would work on: the cached page, or the page a
\* cache miss would load
RootNode(pg, f) == get_page(pg, f, root_page_num, TRUE).pager.pages[root_page_num]

NumCells(pg, f) == NumCellsOf(RootNode(pg, f))

\* outcomes of a positioned read
ReadOutcomes == IF disk = "sound" THEN {TRUE} ELSE BOOLEAN

\* the fault of a failing disk is transient: after the step in which a read
\* fails, reads succeed
AfterRead(readOk) == IF readOk THEN disk ELSE "sound"

Init ==
    /\ file \in InitFiles
    /\ build \in Builds
    /\ disk = "sound"
    /\ pc = "off"
    /\ pager = NoPager
    /\ input = << >>
    /\ out = << >>
    /\ eof = FALSE
    /\ inserted = KeysIn(file)
    /\ closes = 0
    /\ writes = << >>
    /\ atClose = << >>
    /\ emptyReads = 0
    /\ unit = NoUnit

\* a process run begins: main up to the loop, db_open(filename).unwrap().
\* The unwrap of an Err panics before there is a Table; the abort of a
\* misaligned dereference inside db_open ends the process there as well.
Start ==
    /\ pc \in {"off", "exited", "panicked", "aborted"}
    /\ \E readOk \in ReadOutcomes : \E o \in {db_open(file, readOk, build)} :
         /\ pc' = IF o.res = "ok" THEN "loop"
                  ELSE IF o.res = "abort" THEN "aborted" ELSE "failed"
         /\ pager' = o.pager
         /\ out' = IF o.res = "ok" THEN << >> ELSE << Line("panic", << o.res >>) >>
         /\ disk' = AfterRead(readOk)
    /\ input' = << >>
    /\ eof' = FALSE
    /\ closes' = 0
    /\ writes' = << >>
    /\ atClose' = << >>
    /\ emptyReads' = 0
    /\ UNCHANGED << file, build, inserted, unit >>

\* Drop for Table at the end of main or while a panic unwinds: db_close.
\* A panic of db_close at the end of main ends the process as a panic does;
\* one raised while a panic unwinds aborts it.
Drop(pg, newpc) ==
    \E c \in {db_close(pg, file)} :
        /\ pc' = IF c.res = "ok" THEN newpc
                 ELSE IF newpc = "exited" THEN "panicked" ELSE "aborted"
        /\ file' = c.file
        /\ writes' = writes \o c.writes
        /\ closes' = closes + 1
        /\ atClose' = RootNode(pg, file)

\* the effect of one loop iteration on the line `raw`: the Drop of the Table
\* included when the iteration leaves the loop by break or by a panic that
\* unwinds; an abort ends the process with nothing dropped
Iterate(raw, readOk) ==
    \E it \in {main_iteration(raw, pager, file, readOk, build)} :
        /\ input' = raw
        /\ out' = it.out
        /\ pager' = it.pager
        /\ inserted' =
             IF /\ it.ctl = "continue"
                /\ it.out # << >>
                /\ it.out[Len(it.out)].kind = "Executed."
             THEN Let(prepare_statement(trim(raw)), LAMBDA st :
                      IF st.res = "Insert" THEN Append(inserted, st.row.id)
                      ELSE inserted)
             ELSE inserted
        /\ IF it.ctl = "continue"
           THEN /\ pc' = "loop"
                /\ UNCHANGED << file, closes, writes, atClose >>
           ELSE IF it.ctl = "abort"
           THEN /\ pc' = "aborted"
                /\ UNCHANGED << file, closes, writes, atClose >>
           ELSE Drop(it.pager, IF it.ctl = "break" THEN "exited" ELSE "panicked")

\* read_input returns a line
Command ==
    /\ pc = "loop"
    /\ ~eof
    /\ \E raw \in Lines(Len(inserted)) : \E readOk \in ReadOutcomes :
         /\ Iterate(raw, readOk)
         /\ disk' = AfterRead(readOk)
    /\ UNCHANGED << build, eof, emptyReads, unit >>

\* read_input returns Ok(0): the input is exhausted and the line is empty
EndOfInput ==
    /\ pc = "loop"
    /\ ~Filling(Len(inserted))
    /\ eof' = TRUE
    /\ emptyReads' = IF emptyReads = 1 THEN 2 ELSE 1
    /\ \E readOk \in ReadOutcomes : Iterate(<< >>, readOk)
    /\ UNCHANGED << build, disk, unit >>

\* read_input returns Err: expect() panics and the unwinding drops the Table
StdinError ==
    /\ pc = "loop"
    /\ ~eof
    /\ ~Filling(Len(inserted))
    /\ Drop(pager, "panicked")
    /\ input' = << >>
    /\ out' = << Line("panic", << "Failed to read input" >>) >>
    /\ UNCHANGED << build, disk, pager, eof, inserted, emptyReads, unit >>

Next == Start \/ Command \/ EndOfInput \/ StdinError

Spec == Init /\ [][Next]_vars

\* the program on a disk of which one read may fail
FaultInit ==
    /\ file \in InitFiles
    /\ build \in Builds
    /\ disk = "failing"
    /\ pc = "off"
    /\ pager = NoPager
    /\ input = << >>
    /\ out = << >>
    /\ eof = FALSE
    /\ inserted = KeysIn(file)
    /\ closes = 0
    /\ writes = << >>
    /\ atClose = << >>
    /\ emptyReads = 0
    /\ unit = NoUnit

FaultSpec == FaultInit /\ [][Next]_vars

\* ------------------------------------------------------------------------
\* Views of the state used by the properties
\* ------------------------------------------------------------------------
\* the root leaf as the running program sees it
Root == RootNode(pager, file)

Executed == Line("Executed.", << >>)

\* the run ended with the Table dropped
Down == pc \in {"exited", "panicked"}

\* ------------------------------------------------------------------------
\* C1  Persistence: when a closed table is reopened from the same file, the
\* open succeeds, a scan yields what a scan just before the close yielded
\* (the same rows, byte for byte and in order), and the root leaf's cell
\* count is the one before the close.
\* ------------------------------------------------------------------------
C1_Persistence ==
    [][ Down =>
          /\ pc' = "loop"
          /\ execute_select(pager', file', TRUE, build).res = ScanOf(atClose, build).res
          /\ execute_select(pager', file', TRUE, build).out = ScanOf(atClose, build).out
          /\ build = "release" => ScanOf(atClose, build).res = "ok"
          /\ ValuesOf(RootNode(pager', file')) = ValuesOf(atClose)
          /\ NumCells(pager', file') = NumCellsOf(atClose) ]_vars

\* a reopened table that holds rows of an earlier run, not yet cached, which
\* a scan prints
C1_Witness ==
    /\ pc = "loop"
    /\ ~eof
    /\ input = << >>
    /\ pager.pages[root_page_num] = << >>
    /\ NumCells(pager, file) >= 2
    /\ Len(ScanOf(Root, build).out) = NumCells(pager, file)

\* ------------------------------------------------------------------------
\* C2  Capacity, as claimed: counted from the empty table, a well-formed
\* insert succeeds while fewer than LEAF_NODE_MAX_CELLS (13) inserts have
\* succeeded, and the 14th and every later one is rejected with "table
\* full"; after either the loop goes on.  (Refuted by the build with debug
\* assertions, in which the insert ends the process.)
\* ------------------------------------------------------------------------
WellFormedInserts ==
    {PlainInsert(d) : d \in VariedIds \cup FillId} \cup SpecialInserts

C2_Capacity_AsClaimed ==
    input \in WellFormedInserts =>
      /\ pc = "loop"
      /\ \/ /\ out = << Executed >>
            /\ Len(inserted) <= LEAF_NODE_MAX_CELLS
            /\ NumCells(pager, file) = Len(inserted)
         \/ /\ out = << Error("TableFull", << >>) >>
            /\ Len(inserted) = LEAF_NODE_MAX_CELLS
            /\ NumCells(pager, file) = LEAF_NODE_MAX_CELLS

\* ------------------------------------------------------------------------
\* C3  Order invariant, as claimed: the keys of the root leaf are ascending
\* by cell index.  (Refuted: the leaf keeps insertion order.)
\* ------------------------------------------------------------------------
Ascending(keys) ==
    \A i \in 1..(Len(keys) - 1) : U32Leq(keys[i], keys[i + 1])

C3_Ascending_AsClaimed ==
    pc = "loop" => Ascending(KeysOf(Root))

\* C3 as amended: the leaf is not kept sorted.  Every successful insert
\* stores its key in the cell whose index is the cell count of the root leaf
\* as the pager holds it (its key is the id of the row prepared from the
\* line), and leaves the keys of the cells below it as they were, whatever
\* the key; so the leaf is ascending after the insert iff it
\* was before and the new key is not smaller than the key of the last cell.
C3_OrderOfInsertion ==
    [][ (/\ pc = "loop" /\ pc' = "loop"
         /\ out' = << Executed >>
         /\ starts_with(trim(input'), KwInsert))
        => /\ KeysOf(RootNode(pager', file')) =
                Append(KeysOf(Root), prepare_statement(trim(input')).row.id)
           /\ Ascending(KeysOf(RootNode(pager', file')))
                <=> /\ Ascending(KeysOf(Root))
                    /\ \/ NumCells(pager, file) = 0
                       \/ U32Leq(KeyOf(Root, NumCells(pager, file) - 1),
                                 prepare_statement(trim(input')).row.id) ]_vars

\* the insert of 1 after the insert of 3 was executed: the keys are 3, 1
C3_Witness ==
    /\ pc = "loop"
    /\ out = << Executed >>
    /\ starts_with(trim(input), KwInsert)
    /\ prepare_statement(trim(input)).row.id = << 1, 0 >>
    /\ KeysOf(Root) = << << 3, 0 >>, << 1, 0 >> >>
    /\ ~Ascending(KeysOf(Root))

\* ------------------------------------------------------------------------
\* C4  Append order, as claimed: counted from the empty table, cell i of
\* the root leaf holds the key of the (i+1)-th successful insert, for every
\* i below the cell count, and an insert never changes a cell that existed
\* before it.  (Refuted where a read of get_page fails: the page of zeros
\* it leaves in the cache takes the place of the root, and the next insert
\* fills cell 0 again.)
\* ------------------------------------------------------------------------
C4_AppendOrder_AsClaimed ==
    /\ [](pc = "loop" =>
            \A i \in 1..NumCells(pager, file) :
               /\ i <= Len(inserted)
               /\ KeysOf(Root)[i] = inserted[i])
    /\ [][ (/\ pc = "loop" /\ pc' = "loop"
            /\ out' = << Executed >>
            /\ starts_with(trim(input'), KwInsert)) =>
             \A i \in 0..(NumCells(pager, file) - 1) :
                leaf_node_cell(RootNode(pager', file'), i) = leaf_node_cell(Root, i) ]_vars

\* ------------------------------------------------------------------------
\* C5  Rejected commands never mutate the table: after a line that ends in
\* a parse error or in "table full", the root leaf (cell count and every
\* byte) is what it was before, and so are the file and the inserts counted.
\* ------------------------------------------------------------------------
C5_RejectedKeepsTable ==
    [][ (/\ pc = "loop" /\ pc' = "loop"
         /\ \/ input' \in RejectedLines \cup {UnknownMetaLine, << >>}
            \/ /\ input' \in WellFormedInserts
               /\ out' = << Error("TableFull", << >>) >>)
        => /\ RootNode(pager', file') = Root
           /\ inserted' = inserted
           /\ file' = file ]_vars

\* a negative id was rejected on a table that holds rows
C5_Witness ==
    /\ pc = "loop"
    /\ input = NegativeIdLine
    /\ out = << Error("NegativeId", << >>) >>
    /\ NumCells(pager, file) >= 1

\* ------------------------------------------------------------------------
\* C6  Scan completeness, as claimed: on a leaf of n cells select prints
\* exactly n rows, the k-th being the row of cell k-1, and stops; a cursor
\* from table_start is at the end after j advances iff j >= n.  (Refuted by
\* the build with debug assertions, in which table_start ends the process.)
\* ------------------------------------------------------------------------
\* table_start and then j advances
RECURSIVE Advanced(_, _, _, _)
Advanced(c, node, j, bld) ==
    IF j = 0 \/ c.res # "ok" THEN c
    ELSE Advanced(advance(c.cursor, node, bld), node, j - 1, bld)

\* the rows among the lines printed
RowsIn(o) == SelectSeq(o, LAMBDA l : l.kind = "row")

C6_ScanComplete_AsClaimed ==
    LET n == NumCells(pager, file)
    IN  /\ pc = "loop" =>
             \A j \in 0..LEAF_NODE_MAX_CELLS :
                LET a == Advanced(table_start(Root, build), Root, j, build)
                IN  a.res = "ok" /\ (a.cursor.end_of_table <=> (j >= n))
        /\ input = SelectLine =>
             RowsIn(out) = [k \in 1..n |-> Display(RowOf(Root, k - 1))]

\* ------------------------------------------------------------------------
\* C7  One error line, as claimed: a line that results in a recoverable
\* error (a parse error, an unrecognized meta command, table full) prints
\* exactly one "Error: ..." line and the loop goes on.  (Refuted by the
\* unrecognized meta command, which prints two.)
\* ------------------------------------------------------------------------
ErrorLines(o) == {i \in 1..Len(o) : o[i].kind = "Error"}

C7_OneErrorLine_AsClaimed ==
    (/\ pc = "loop"
     /\ \/ input \in RejectedLines \cup {UnknownMetaLine}
        \/ input \in WellFormedInserts /\ out # << Executed >>)
    => Cardinality(ErrorLines(out)) = 1

\* ------------------------------------------------------------------------
\* C8  String bounds, as claimed: an insert with a username of at most 32
\* bytes and an email of at most 255 bytes is accepted and its strings are
\* stored, zero-padded, in the next cell; a username of 33 bytes or an email
\* of 256 bytes is rejected with "string is too long", so a select on the
\* empty table prints no row.  (Refuted by the build with debug assertions,
\* in which the accepted insert, and the select, end the process.)
\* ------------------------------------------------------------------------
\* the well-formed insert lines with the strings written in them
Written ==
    {[line |-> PlainInsert(d), username |-> << 117, d >>, email |-> << 101, d >>] :
        d \in VariedIds \cup FillId}
    \cup {[line |-> MaxLengthInsert, username |-> Rep(97, COLUMN_USERNAME_SIZE),
           email |-> Rep(97, COLUMN_EMAIL_SIZE)],
          [line |-> BigIdInsert, username |-> << 117 >>, email |-> << 101 >>]}

Padded(str, n) == str \o Zeros(n - Len(str))

C8_StringBounds_AsClaimed ==
    /\ (input = SelectLine /\ inserted = << >>) => (pc = "loop" /\ out = << Executed >>)
    /\ \A w \in Written :
         (input = w.line /\ out # << Error("TableFull", << >>) >>) =>
            LET n == NumCells(pager, file)
            IN  /\ Len(w.username) <= COLUMN_USERNAME_SIZE
                /\ Len(w.email) <= COLUMN_EMAIL_SIZE
                /\ pc = "loop"
                /\ out = << Executed >>
                /\ n = Len(inserted)
                /\ n >= 1
                /\ RowOf(Root, n - 1).username = Padded(w.username, USERNAME_SIZE)
                /\ RowOf(Root, n - 1).email = Padded(w.email, EMAIL_SIZE)
    /\ input \in {LongUsernameLine, LongEmailLine} =>
         (pc = "loop" /\ out = << Error("StringTooLong", << >>) >>)

\* ------------------------------------------------------------------------
\* C9  Teardown, as claimed: a run that ends after the table was opened has
\* closed it exactly once, and the close wrote every cached page, each once,
\* whole, at offset index * PAGE_SIZE; nothing is closed while the loop runs
\* or when no table was opened.  (Refuted by the build with debug
\* assertions: the abort ends the run with no close and the cached page
\* unwritten.)
\* ------------------------------------------------------------------------
Cached == {i \in DOMAIN pager.pages : pager.pages[i] # << >>}

C9_Teardown_AsClaimed ==
    /\ pc \in {"off", "failed", "loop"} => closes = 0 /\ writes = << >>
    /\ (Down \/ (pc = "aborted" /\ pager # NoPager)) =>
         /\ closes = 1
         /\ Len(writes) = Cardinality(Cached)
         /\ \A i \in Cached :
              /\ \E k \in 1..Len(writes) :
                   writes[k] = [page |-> i, offset |-> i * PAGE_SIZE]
              /\ Slice(file, i * PAGE_SIZE, (i + 1) * PAGE_SIZE) = pager.pages[i]

\* ------------------------------------------------------------------------
\* C10  Open, as claimed: opening a file whose length is not a multiple of
\* PAGE_SIZE fails with the data-corruption error and there is no Table; the
\* open of a file of a whole number of pages (0 included) succeeds.
\* (Refuted by the build with debug assertions on the file of length 0.)
\* ------------------------------------------------------------------------
C10_OpenChecksLength_AsClaimed ==
    IF Len(file) % PAGE_SIZE # 0
    THEN /\ pc \in {"off", "failed"}
         /\ pager = NoPager
         /\ pc = "failed" => out = << Line("panic", << "InvalidData" >>) >>
    ELSE ~(pc = "failed" \/ (pc = "aborted" /\ pager = NoPager))

\* ------------------------------------------------------------------------
\* Progress on a finite input: the input comes to its end, and a running
\* loop whose input is at its end performs its next read, which returns at
\* once with Ok(0)
\* ------------------------------------------------------------------------
LiveSpec == Init /\ [][Next]_vars /\ WF_vars(EndOfInput)

\* ------------------------------------------------------------------------
\* Single functions called on their own: the pager's get_page on files of
\* zero, one and two pages, leaf_node_insert at every cursor position of a
\* leaf, the Row codec, and the formatting of a Row
\* ------------------------------------------------------------------------
\* a page filled with the byte b
PageOf(b) == Rep(b, PAGE_SIZE)

\* the files behind the pager
UnitFiles == { << >>, PageOf(7), PageOf(7) \o PageOf(9) }

\* the page numbers asked for
PageNums == { 0, 1, 2, TABLE_MAX_PAGES - 1, TABLE_MAX_PAGES, TABLE_MAX_PAGES + 1 }

\* a pager just opened on file f, no page asked for yet
PagerInputs ==
    { [ op |-> "get_page", file |-> f, pager |-> Pager_open(f).pager,
        called |-> FALSE, page_num |-> 0, res |-> "none", reads |-> << >>,
        miss |-> FALSE, rejected |-> "none" ] : f \in UnitFiles }

\* the row with key k that fills a leaf, and the row inserted into it
UnitRow(k) ==
    [ id |-> << k, 0 >>,
      username |-> << 64 + k >> \o Zeros(USERNAME_SIZE - 1),
      email |-> << 96 + k >> \o Zeros(EMAIL_SIZE - 1) ]

NewRow ==
    [ id |-> << 513, 1027 >>,
      username |-> << 110, 101, 119 >> \o Zeros(USERNAME_SIZE - 3),
      email |-> << 110, 64, 119 >> \o Zeros(EMAIL_SIZE - 3) ]

\* a leaf of n cells with the keys 1..n, as n inserts at the end make it in
\* the release build
RECURSIVE Filled(_)
Filled(n) ==
    IF n = 0 THEN initialize_leaf_node(ZeroPage, "release").node
    ELSE Let(Filled(n - 1), LAMBDA node :
         leaf_node_insert(node, table_end(node, "release").cursor,
                          UnitRow(n).id, UnitRow(n), "release").node)

\* a leaf of n cells and a cursor at cell c of it
LeafInput(n, c) ==
    [ op |-> "leaf_node_insert", before |-> Filled(n),
      cursor |-> [ page_num |-> root_page_num, cell_num |-> c,
                   end_of_table |-> (c = n) ],
      called |-> FALSE, res |-> "none", node |-> << >> ]

LeafInputs ==
    { LeafInput(q[1], q[2]) :
        q \in { r \in (0..LEAF_NODE_MAX_CELLS) \X (0..LEAF_NODE_MAX_CELLS) :
                  r[2] <= r[1] } }

\* ids, user names and e-mail addresses of the rows put through the codec:
\* 0, 1, 0x04030201 and u32::MAX; strings of no byte, one byte and of the
\* greatest length
CodecIds == { << 0, 0 >>, << 1, 0 >>, << 513, 1027 >>, << Limb - 1, Limb - 1 >> }

CodecUsernames ==
    { Rep(97, n) \o Zeros(USERNAME_SIZE - n) : n \in {0, 1, COLUMN_USERNAME_SIZE} }

CodecEmails ==
    { Rep(98, n) \o Zeros(EMAIL_SIZE - n) : n \in {0, 1, COLUMN_EMAIL_SIZE} }

\* the buffers serialize writes into: a cell's value, a longer buffer and a
\* buffer one byte too short; all hold the byte 255 everywhere
CodecDests == { Rep(255, ROW_SIZE), Rep(255, ROW_SIZE + 2), Rep(255, ROW_SIZE - 1) }

\* where in its page the buffer begins: the values of the cells 0 and 2
CodecOffsets == { ValueOffset(0), ValueOffset(2) }

CodecInputs ==
    { [ op |-> "serialize", row |-> [ id |-> i, username |-> u, email |-> e ],
        dest |-> d, offset |-> o, called |-> FALSE, wrote |-> "none",
        bytes |-> << >>, read |-> "none", back |-> NoRow ] :
        i \in CodecIds, u \in CodecUsernames, e \in CodecEmails, d \in CodecDests,
        o \in CodecOffsets }

\* user names and e-mail addresses of the rows formatted: text with a nul
\* after it, no nul at all, and bytes before the nul that are not UTF-8 (two
\* bytes that begin no sequence, a continuation byte out of place, a
\* sequence cut short); "é" is text
DisplayUsernames ==
    { << 117 >> \o Zeros(USERNAME_SIZE - 1),
      << 195, 169 >> \o Zeros(USERNAME_SIZE - 2),
      Rep(97, USERNAME_SIZE),
      << 255, 254 >> \o Zeros(USERNAME_SIZE - 2),
      << 195 >> \o Zeros(USERNAME_SIZE - 1) }

DisplayEmails ==
    { << 101 >> \o Zeros(EMAIL_SIZE - 1),
      Rep(98, EMAIL_SIZE),
      << 97, 200 >> \o Zeros(EMAIL_SIZE - 2),
      << 97, 128 >> \o Zeros(EMAIL_SIZE - 2) }

DisplayInputs ==
    { [ op |-> "fmt", row |-> [ id |-> << 1, 0 >>, username |-> u, email |-> e ],
        called |-> FALSE, res |-> "none", line |-> Line("none", << >>) ] :
        u \in DisplayUsernames, e \in DisplayEmails }

\* the tables closed: a pager just opened on a file of 0, 1, 2 or
\* TABLE_MAX_PAGES + 1 pages, page 0 asked for or no page
CloseInputs ==
    { [ op |-> "db_close", file |-> f,
        pager |-> IF cached THEN get_page(Pager_open(f).pager, f, 0, TRUE).pager
                  ELSE Pager_open(f).pager,
        called |-> FALSE, res |-> "none", after |-> << >>, writes |-> << >> ] :
        f \in UnitFiles \cup { Zeros((TABLE_MAX_PAGES + 1) * PAGE_SIZE) },
        cached \in BOOLEAN }

UnitInit ==
    /\ unit \in PagerInputs \cup LeafInputs \cup CodecInputs \cup DisplayInputs
                \cup CloseInputs
    /\ build \in Builds
    /\ file = << >>
    /\ disk = "sound"
    /\ pc = "unit"
    /\ pager = NoPager
    /\ input = << >>
    /\ out = << >>
    /\ eof = FALSE
    /\ inserted = << >>
    /\ closes = 0
    /\ writes = << >>
    /\ atClose = << >>
    /\ emptyReads = 0

\* what a unit step leaves alone: the state of the program
program == << file, build, disk, pc, pager, input, out, eof, inserted, closes,
              writes, atClose, emptyReads >>

\* pager.get_page(page_num); the read_at of a cache miss returns Ok or Err
GetPage ==
    /\ unit.op = "get_page"
    /\ \E page_num \in PageNums : \E readOk \in BOOLEAN :
       \E g \in { get_page(unit.pager, unit.file, page_num, readOk) } :
         unit' = [ unit EXCEPT
                     !.called = TRUE,
                     !.page_num = page_num,
                     !.res = g.res,
                     !.reads = g.reads,
                     !.pager = g.pager,
                     !.miss = (~IndexPanics(unit.pager, page_num)
                               /\ unit.pager.pages[page_num] = << >>),
                     !.rejected = IF OutOfBoundsCheck(page_num) THEN "check"
                                  ELSE IF IndexPanics(unit.pager, page_num)
                                  THEN "index" ELSE "none" ]
    /\ UNCHANGED program

\* cursor.leaf_node_insert(key, value) with the new row
LeafNodeInsert ==
    /\ unit.op = "leaf_node_insert"
    /\ ~unit.called
    /\ \E r \in { leaf_node_insert(unit.before, unit.cursor, NewRow.id, NewRow,
                                   build) } :
         unit' = [ unit EXCEPT !.called = TRUE, !.res = r.res, !.node = r.node ]
    /\ UNCHANGED program

\* row.serialize(dest) and, when it returned, Row::deserialize of what it wrote
RoundTrip ==
    /\ unit.op = "serialize"
    /\ ~unit.called
    /\ \E s \in { serialize(unit.row, unit.dest) } :
       \E d \in { IF s.res = "ok" THEN deserialize(s.dest, unit.offset, build)
                  ELSE [ res |-> "none", row |-> NoRow ] } :
         unit' = [ unit EXCEPT !.called = TRUE, !.wrote = s.res, !.bytes = s.dest,
                               !.read = d.res, !.back = d.row ]
    /\ UNCHANGED program

\* format!("{}", row)
Format ==
    /\ unit.op = "fmt"
    /\ ~unit.called
    /\ unit' = [ unit EXCEPT
                   !.called = TRUE,
                   !.res = IF DisplayPanics(unit.row) THEN "panic" ELSE "ok",
                   !.line = IF DisplayPanics(unit.row) THEN Line("none", << >>)
                            ELSE Display(unit.row) ]
    /\ UNCHANGED program

\* db_close(&mut table)
Close ==
    /\ unit.op = "db_close"
    /\ ~unit.called
    /\ \E c \in { db_close(unit.pager, unit.file) } :
         unit' = [ unit EXCEPT !.called = TRUE, !.res = c.res, !.after = c.file,
                               !.writes = c.writes ]
    /\ UNCHANGED program

UnitNext == GetPage \/ LeafNodeInsert \/ RoundTrip \/ Format \/ Close

UnitSpec == UnitInit /\ [][UnitNext]_vars

\* ------------------------------------------------------------------------
\* C11  Row codec round trip, as claimed: for a row of any u32 id and
\* zero-padded strings, serialize writes the id in four bytes, least
\* significant first, at offset 0, then the 33 and 256 bytes of the strings,
\* ROW_SIZE = 293 bytes in all and no byte after them, and deserialize of
\* these bytes gives the row back, field by field.  (Refuted by the build
\* with debug assertions when the bytes lie at a misaligned address, as the
\* value of cell 0 does.)
\* ------------------------------------------------------------------------
C11_RoundTrip_AsClaimed ==
    (unit.op = "serialize" /\ unit.called /\ Len(unit.dest) >= ROW_SIZE) =>
        /\ unit.wrote = "ok"
        /\ unit.read = "ok"
        /\ unit.back = unit.row
        /\ Len(unit.bytes) = Len(unit.dest)
        /\ Slice(unit.bytes, 0, ID_SIZE) =
             << unit.row.id[1] % 256, unit.row.id[1] \div 256,
                unit.row.id[2] % 256, unit.row.id[2] \div 256 >>
        /\ Slice(unit.bytes, ID_SIZE, ID_SIZE + USERNAME_SIZE) = unit.row.username
        /\ Slice(unit.bytes, ID_SIZE + USERNAME_SIZE, ROW_SIZE) = unit.row.email
        /\ ROW_SIZE = 293
        /\ Slice(unit.bytes, ROW_SIZE, Len(unit.bytes))
             = Slice(unit.dest, ROW_SIZE, Len(unit.dest))

\* ------------------------------------------------------------------------
\* C12  Layout constants: with PAGE_SIZE = 4096 the derived constants are
\* ROW_SIZE = 293, COMMON_NODE_HEADER_SIZE = 6, LEAF_NODE_HEADER_SIZE = 10,
\* LEAF_NODE_CELL_SIZE = 297, LEAF_NODE_SPACE_FOR_CELLS = 4086 and
\* LEAF_NODE_MAX_CELLS = 13; .constants prints these values; the bytes of
\* every cell i < 13 are 10 + i*297 up to 10 + (i+1)*297 and lie inside the
\* page, as do the cells of every leaf the program holds.
\* ------------------------------------------------------------------------
C12_Layout ==
    /\ PAGE_SIZE = 4096
    /\ ROW_SIZE = 293
    /\ COMMON_NODE_HEADER_SIZE = 6
    /\ LEAF_NODE_HEADER_SIZE = 10
    /\ LEAF_NODE_CELL_SIZE = 297
    /\ LEAF_NODE_SPACE_FOR_CELLS = 4086
    /\ LEAF_NODE_MAX_CELLS = 13
    /\ \A i \in 0..(LEAF_NODE_MAX_CELLS - 1) :
         /\ leaf_node_offset(i) = 10 + i * 297
         /\ leaf_node_offset(i + 1) = 10 + (i + 1) * 297
         /\ leaf_node_offset(i + 1) <= PAGE_SIZE
    /\ leaf_node_offset(LEAF_NODE_MAX_CELLS + 1) > PAGE_SIZE
    /\ pc = "loop" =>
         /\ Len(Root) = PAGE_SIZE
         /\ \A i \in 0..(NumCells(pager, file) - 1) :
              /\ CellInPage(Root, i)
              /\ Len(leaf_node_cell(Root, i)) = 297
         /\ input = ConstantsLine =>
              out = << Line("Constants:", << >>),
                       Line("ROW_SIZE", << 293 >>),
                       Line("COMMON_NODE_HEADER_SIZE", << 6 >>),
                       Line("LEAF_NODE_HEADER_SIZE", << 10 >>),
                       Line("LEAF_NODE_CELL_SIZE", << 297 >>),
                       Line("LEAF_NODE_SPACE_FOR_CELLS", << 4086 >>),
                       Line("LEAF_NODE_MAX_CELLS", << 13 >>) >>

\* .constants was run on a leaf that holds the 13 cells
C12_Witness ==
    /\ pc = "loop"
    /\ input = ConstantsLine
    /\ Len(out) = 7
    /\ NumCells(pager, file) = LEAF_NODE_MAX_CELLS
    /\ CellInPage(Root, LEAF_NODE_MAX_CELLS - 1)

\* ------------------------------------------------------------------------
\* C13  Cell-count bound, as claimed: while the program runs, the cell
\* count of the root leaf is between 0 and LEAF_NODE_MAX_CELLS; an iteration
\* leaves it as it is, or raises it by one, and it raises it exactly when an
\* insert succeeded; a close and reopen keep it.  (Refuted where a read of
\* get_page fails: the count of the root the program works on falls to 0
\* with no insert.)
\* ------------------------------------------------------------------------
C13_CellCount_AsClaimed ==
    /\ [](pc = "loop" => NumCells(pager, file) \in 0..LEAF_NODE_MAX_CELLS)
    /\ [][ /\ (pc = "loop" /\ pc' = "loop") =>
                /\ NumCells(pager', file') \in
                     { NumCells(pager, file), NumCells(pager, file) + 1 }
                /\ (NumCells(pager', file') = NumCells(pager, file) + 1)
                     <=> (/\ out' = << Executed >>
                          /\ starts_with(trim(input'), KwInsert))
           /\ (pc = "loop" /\ Down') => NumCellsOf(atClose') = NumCells(pager, file)
           /\ (Down /\ pc' = "loop") =>
                NumCells(pager', file') = NumCellsOf(atClose) ]_vars

\* ------------------------------------------------------------------------
\* C14  Key/row agreement: in every state of the running program, and in
\* the leaf a close leaves in the file, the four-byte key of each cell below
\* the cell count equals the id of the row serialized in that cell.
\* ------------------------------------------------------------------------
KeysAgree(node) ==
    \A i \in 0..(NumCellsOf(node) - 1) : KeyOf(node, i) = RowOf(node, i).id

C14_KeyRowAgreement ==
    /\ pc = "loop" => KeysAgree(Root)
    /\ Down => KeysAgree(Slice(file, 0, PAGE_SIZE))

\* the rows of ids 3, 1, 2 are stored, each under its key
C14_Witness ==
    /\ pc = "loop"
    /\ NumCells(pager, file) = 3
    /\ KeysOf(Root) = << << 3, 0 >>, << 1, 0 >>, << 2, 0 >> >>
    /\ RowOf(Root, 0).id = << 3, 0 >>
    /\ RowOf(Root, 2).id = << 2, 0 >>

\* ------------------------------------------------------------------------
\* C15  Page-index range check, as claimed: every get_page of a page number
\* outside [0, TABLE_MAX_PAGES) is rejected by the check at the head of
\* get_page, so that the array of pages is never indexed at TABLE_MAX_PAGES
\* or beyond.
\* ------------------------------------------------------------------------
C15_RangeCheck_AsClaimed ==
    (unit.op = "get_page" /\ unit.called /\ unit.page_num >= TABLE_MAX_PAGES) =>
        /\ unit.res = "panic"
        /\ unit.rejected = "check"

\* ------------------------------------------------------------------------
\* C16  No file access beyond the file's end, as claimed: a get_page that
\* misses the cache for a page whose offset page_num * PAGE_SIZE is at or
\* beyond the length of the file returns a page of zeros and issues no read;
\* for a page whose offset lies inside the file it issues one read, at that
\* offset.
\* ------------------------------------------------------------------------
C16_NoReadBeyondEnd_AsClaimed ==
    (unit.op = "get_page" /\ unit.called /\ unit.miss /\ unit.res = "ok") =>
        IF unit.page_num * PAGE_SIZE >= Len(unit.file)
        THEN /\ unit.pager.pages[unit.page_num] = ZeroPage
             /\ unit.reads = << >>
        ELSE unit.reads = << unit.page_num * PAGE_SIZE >>

\* ------------------------------------------------------------------------
\* C17  Page-count growth, as claimed: after a get_page(i) that returns a
\* page, num_pages is greater than i; no get_page lowers num_pages; a
\* get_page that finds the page in the cache, or that panics, leaves
\* num_pages and every page as they were, and a get_page that misses changes
\* no page but the one asked for.  (Refuted after a get_page whose read
\* failed: the page stays in the cache, num_pages is not raised, and the
\* next get_page(i) returns the page with num_pages <= i.)
\* ------------------------------------------------------------------------
C17_PageCountGrowth_AsClaimed ==
    /\ []((unit.op = "get_page" /\ unit.called /\ unit.res = "ok") =>
             /\ unit.pager.num_pages > unit.page_num
             /\ unit.pager.pages[unit.page_num] # << >>)
    /\ [][ unit.op = "get_page" =>
             /\ unit'.pager.num_pages >= unit.pager.num_pages
             /\ unit'.pager.file_length = unit.pager.file_length
             /\ (unit'.res = "panic" \/ ~unit'.miss) => unit'.pager = unit.pager
             /\ (unit'.res = "ok" /\ unit'.miss) =>
                  /\ unit'.pager.num_pages =
                       IF unit'.page_num >= unit.pager.num_pages
                       THEN unit'.page_num + 1 ELSE unit.pager.num_pages
                  /\ \A i \in DOMAIN unit.pager.pages :
                       i # unit'.page_num =>
                          unit'.pager.pages[i] = unit.pager.pages[i] ]_vars

\* ------------------------------------------------------------------------
\* C18  Leaf insertion at a position, as claimed: on a leaf of
\* n < LEAF_NODE_MAX_CELLS cells and a cursor at cell c, 0 <= c <= n,
\* leaf_node_insert leaves the cells below c as they were, moves each old
\* cell j of c..n-1 to cell j+1 byte for byte, stores the new key and the
\* serialized row in cell c and sets the cell count to n+1, touching no
\* other byte of the page; on a leaf of LEAF_NODE_MAX_CELLS cells it returns
\* the error and changes nothing.  (Refuted by the build with debug
\* assertions, in which the call ends the process at its first read of the
\* cell count.)
\* ------------------------------------------------------------------------
C18_InsertAtPosition_AsClaimed ==
    (unit.op = "leaf_node_insert" /\ unit.called) =>
        LET b == unit.before
            a == unit.node
            n == NumCellsOf(b)
            c == unit.cursor.cell_num
        IN  IF n < LEAF_NODE_MAX_CELLS
            THEN /\ unit.res = "ok"
                 /\ Len(a) = PAGE_SIZE
                 /\ NumCellsOf(a) = n + 1
                 /\ \A j \in 0..(c - 1) : leaf_node_cell(a, j) = leaf_node_cell(b, j)
                 /\ \A j \in c..(n - 1) :
                        leaf_node_cell(a, j + 1) = leaf_node_cell(b, j)
                 /\ KeyOf(a, c) = NewRow.id
                 /\ leaf_node_value(a, c) = serialize(NewRow, Zeros(ROW_SIZE)).dest
                 /\ RowOf(a, c) = NewRow
                 /\ Slice(a, 0, LEAF_NODE_NUM_CELLS_OFFSET)
                      = Slice(b, 0, LEAF_NODE_NUM_CELLS_OFFSET)
                 /\ Slice(a, leaf_node_offset(n + 1), PAGE_SIZE)
                      = Slice(b, leaf_node_offset(n + 1), PAGE_SIZE)
            ELSE /\ unit.res = "err"
                 /\ a = b

\* ------------------------------------------------------------------------
\* C19  Id fidelity, as claimed: after an insert that was accepted, the key
\* of the cell it filled and the id of the row in it equal the number
\* written in the command, also for a number of 2^32 or more.
\* ------------------------------------------------------------------------
\* the number written as the id of an insert line, in four 16-bit limbs
WrittenId(raw) == parse_i64(split_whitespace(trim(raw))[2]).mag

\* a u32 widened to four limbs
Widened(v) == << v[1], v[2], 0, 0 >>

C19_IdFidelity_AsClaimed ==
    (pc = "loop" /\ input \in WellFormedInserts /\ out = << Executed >>) =>
        LET last == NumCells(pager, file) - 1
        IN  /\ Widened(KeyOf(Root, last)) = WrittenId(input)
            /\ Widened(RowOf(Root, last).id) = WrittenId(input)

\* ------------------------------------------------------------------------
\* C20  Termination on end of input, as claimed: once the input is
\* exhausted, the loop stops reading, is left, and the table is closed.
\* ------------------------------------------------------------------------
C20_TerminatesAtEndOfInput_AsClaimed ==
    eof ~> (Down /\ closes = 1)

\* ------------------------------------------------------------------------
\* C21  Failed page load, as claimed: when the read of the file inside
\* get_page fails on a cache miss, the page is not left in the cache; so a
\* page of zeros is never held in the cache in place of a page of the file
\* that has content, and the close never replaces the rows of the file by
\* zeros: the file of an ended run holds the rows inserted.
\* ------------------------------------------------------------------------
\* the last iteration ended in the io::Error of get_page
LoadFailed == pc = "loop" /\ out = << Error("CursorError", << >>) >>

\* the first page of the file, when the file has one
OnDisk == Slice(file, 0, PAGE_SIZE)

C21_NotCachedAfterFailure == LoadFailed => pager.pages[root_page_num] = << >>

C21_NoZerosForContent ==
    (pc = "loop" /\ Len(file) >= PAGE_SIZE /\ pager.pages[root_page_num] = ZeroPage)
        => OnDisk = ZeroPage

C21_CloseKeepsRows ==
    (Down /\ Len(file) >= PAGE_SIZE) => KeysOf(OnDisk) = inserted

C21_FailedLoad_AsClaimed ==
    /\ C21_NotCachedAfterFailure
    /\ C21_NoZerosForContent
    /\ C21_CloseKeepsRows

====
